---- MODULE Spec2Model ----
(***************************************************************************)
(* A model of the CHIP-8 emulator: the virtual machine of chip8.rs with    *)
(* its Memory, Display, Keyboard and Buzzer, driven by the messages of     *)
(* the iced application (clock, 60 Hz timer, keyboard, display).           *)
(***************************************************************************)
EXTENDS Integers, Sequences, FiniteSets, TLC

VARIABLES
    flags,            \* the Flags the application was started with: rom, the bytes of the ROM file
    chip8,            \* the Chip8 struct: registers, timers, memory, display, keyboard, waiting_key_for
    channel,          \* the mpsc channel behind Buzzer.volume: the volumes sent and not yet received
    volume,           \* the volume captured by the audio callback (run_stream)
    panic,            \* <<>> while the process runs, the panic message once it has aborted
    overflow_checks,  \* the build profile: TRUE for a debug build (overflow panics), FALSE for release (wraps)
    message,          \* the Message most recently delivered to Chip8::update
    trace,            \* the instruction most recently logged by execute's trace!: [pc, h]
    accessed,         \* the addresses asked of Memory by the most recent update
    call              \* the most recent direct call of a Display or Memory method: its arguments and result

vars == <<flags, chip8, channel, volume, panic, overflow_checks, message, trace, accessed, call>>

---------------------------------------------------------------------------
(* Bounds of the model. *)

\* how many of the sixteen keys the keyboard events range over
NumKeys == 2
\* how many volumes the channel may hold before the audio callback receives one
MaxChannel == 2
\* length of the sprites handed to draw_sprite by direct calls
MaxSpriteLen == 2

---------------------------------------------------------------------------
(* Program constants. *)

MEMORY_SIZE == 4096
FONT_SIZE == 5
DISPLAY_WIDTH == 64
DISPLAY_HEIGHT == 32
\* rom_from = 0x200, also the initial pc
ROM_FROM == 512
\* u8 and u16
U8_MOD == 256
U16_MOD == 65536
\* rng.gen_range(0..0xFF): the exclusive upper end
RANDOM_END == 255

FONT ==
 << 240, 144, 144, 144, 240,   \* 0
     32,  96,  32,  32, 112,   \* 1
    240,  16, 240, 128, 240,   \* 2
    240,  16, 240,  16, 240,   \* 3
    144, 144, 240,  16,  16,   \* 4
    240, 128, 240,  16, 240,   \* 5
    240, 128, 240, 144, 240,   \* 6
    240,  16,  32,  64,  64,   \* 7
    240, 144, 240, 144, 240,   \* 8
    240, 144, 240,  16, 240,   \* 9
    240, 144, 240, 144, 144,   \* A
    224, 144, 224, 144, 224,   \* B
    240, 128, 128, 128, 240,   \* C
    224, 144, 144, 144, 224,   \* D
    240, 128, 240, 128, 240,   \* E
    240, 128, 240, 128, 128 >> \* F

\* the values of KEY_MAP, in the order the model's bound takes them
KEY_MAP == << 7, 15, 0, 1, 2, 3, 4, 5, 6, 8, 9, 10, 11, 12, 13, 14 >>

Keys == { KEY_MAP[j] : j \in 1..NumKeys }

\* Option: None is <<>>, Some(x) is <<x>>
None == <<>>
Some(x) == <<x>>

\* Buzzer::on sends 0.2, Buzzer::off sends 0.0
ON == "0.2"
OFF == "0.0"

---------------------------------------------------------------------------
(* Bit operations on unsigned integers. *)

RECURSIVE bit_and(_, _)
bit_and(a, b) ==
    IF a = 0 \/ b = 0 THEN 0
    ELSE (a % 2) * (b % 2) + 2 * bit_and(a \div 2, b \div 2)

RECURSIVE bit_or(_, _)
bit_or(a, b) ==
    IF a = 0 THEN b
    ELSE IF b = 0 THEN a
    ELSE (IF a % 2 = 1 \/ b % 2 = 1 THEN 1 ELSE 0) + 2 * bit_or(a \div 2, b \div 2)

RECURSIVE bit_xor(_, _)
bit_xor(a, b) ==
    IF a = 0 THEN b
    ELSE IF b = 0 THEN a
    ELSE (IF a % 2 # b % 2 THEN 1 ELSE 0) + 2 * bit_xor(a \div 2, b \div 2)

\* n1 * 0x10 + n2, in u8: two nibbles never overflow
value_of(n1, n2) == n1 * 16 + n2

\* n1 as u16 * 0x100 + n2 as u16 * 0x010 + n3 as u16
address_of(n1, n2, n3) == n1 * 256 + n2 * 16 + n3

---------------------------------------------------------------------------
(* Memory (memory.rs). *)

\* Memory::with_rom: zeroes, then the font from 0, then the ROM from 0x200
with_rom(rom) ==
    [at |-> [a \in 0..(MEMORY_SIZE - 1) |->
                IF a >= ROM_FROM /\ a - ROM_FROM < Len(rom) THEN rom[a - ROM_FROM + 1]
                ELSE IF a < Len(FONT) THEN FONT[a + 1]
                ELSE 0]]

\* Memory::with_rom fails: memory.at[rom_from + offset] is indexed past the array
with_rom_panics(rom) == ROM_FROM + Len(rom) > MEMORY_SIZE

\* the index check of self.at[addr as usize]
in_bounds(addr) == addr >= 0 /\ addr < MEMORY_SIZE

\* Memory::load, for an address in bounds
load(memory, addr) == memory.at[addr]

\* Memory::load_sprite, for a slice in bounds: the bytes from..from+size
load_sprite(memory, from, size) == [j \in 1..size |-> memory.at[from + j - 1]]

---------------------------------------------------------------------------
(* Display (display.rs). *)

Display_new == [at |-> [y \in 0..(DISPLAY_HEIGHT - 1) |-> [x \in 0..(DISPLAY_WIDTH - 1) |-> FALSE]]]

\* a faulty clear: the bottom row is left as it is
clear_but_last_row(display) ==
    [display EXCEPT !.at = [y \in 0..(DISPLAY_HEIGHT - 1) |->
                               IF y = DISPLAY_HEIGHT - 1 THEN display.at[y]
                               ELSE [x \in 0..(DISPLAY_WIDTH - 1) |-> FALSE]]]

\* Display::clear
clear(display) == [display EXCEPT !.at = [y \in 0..(DISPLAY_HEIGHT - 1) |-> [x \in 0..(DISPLAY_WIDTH - 1) |-> FALSE]]]

\* a faulty pixel: old | new, so that a lit pixel is never put out
draw_pixel_or(d, wrapped_y, wrapped_x, new) ==
    LET old == d.at[wrapped_y][wrapped_x]
    IN  [at |-> [d.at EXCEPT ![wrapped_y][wrapped_x] = (old \/ new)],
         collision |-> d.collision \/ (old /\ new)]

\* the pixel of one bit: old ^ new, collision when both were set
draw_pixel(d, wrapped_y, wrapped_x, new) ==
    LET old == d.at[wrapped_y][wrapped_x]
    IN  [at |-> [d.at EXCEPT ![wrapped_y][wrapped_x] = (old # new)],
         collision |-> d.collision \/ (old /\ new)]

\* a faulty inner loop: line >> offset_x, the least significant bit leftmost
RECURSIVE draw_line_lsb_first(_, _, _, _, _)
draw_line_lsb_first(d, wrapped_y, x, line, offset_x) ==
    IF offset_x >= 8 THEN d
    ELSE LET wrapped_x == (x + offset_x) % DISPLAY_WIDTH
             new == (line \div (2 ^ offset_x)) % 2 = 1
         IN  draw_line_lsb_first(draw_pixel(d, wrapped_y, wrapped_x, new), wrapped_y, x, line, offset_x + 1)

\* the inner loop of draw_sprite: for offset_x in 0..8
RECURSIVE draw_line(_, _, _, _, _)
draw_line(d, wrapped_y, x, line, offset_x) ==
    IF offset_x >= 8 THEN d
    ELSE LET wrapped_x == (x + offset_x) % DISPLAY_WIDTH
             new == (line \div (2 ^ (7 - offset_x))) % 2 = 1
         IN  draw_line(draw_pixel(d, wrapped_y, wrapped_x, new), wrapped_y, x, line, offset_x + 1)

\* the outer loop of draw_sprite: for (offset_y, line) in sprite.iter().enumerate()
RECURSIVE draw_lines(_, _, _, _, _)
draw_lines(d, x, y, sprite, offset_y) ==
    IF offset_y >= Len(sprite) THEN d
    ELSE LET wrapped_y == (y + offset_y) % DISPLAY_HEIGHT
         IN  draw_lines(draw_line(d, wrapped_y, x, sprite[offset_y + 1], 0), x, y, sprite, offset_y + 1)

\* Display::draw_sprite: the display after the call and the collision it returns
draw_sprite(display, x, y, sprite) ==
    LET d == draw_lines([at |-> display.at, collision |-> FALSE], x, y, sprite, 0)
    IN  [display |-> [display EXCEPT !.at = d.at], collision |-> d.collision]

---------------------------------------------------------------------------
(* Keyboard (keyboard.rs). *)

Keyboard_new == [pressed_keys |-> {}]

\* a faulty update: a Press of a key that is held down releases it
Keyboard_update_toggle(keyboard, msg) ==
    IF msg[1] = "Press" /\ msg[2] \notin keyboard.pressed_keys
    THEN [keyboard EXCEPT !.pressed_keys = @ \cup {msg[2]}]
    ELSE [keyboard EXCEPT !.pressed_keys = @ \ {msg[2]}]

\* Keyboard::update
Keyboard_update(keyboard, msg) ==
    IF msg[1] = "Press" THEN [keyboard EXCEPT !.pressed_keys = @ \cup {msg[2]}]
    ELSE [keyboard EXCEPT !.pressed_keys = @ \ {msg[2]}]

\* Keyboard::is_pressed
is_pressed(keyboard, value) == value \in keyboard.pressed_keys

---------------------------------------------------------------------------
(* The virtual machine (chip8.rs). *)

Registers_new ==
    [v |-> [j \in 0..15 |-> 0], i |-> 0, pc |-> ROM_FROM, sp |-> 0, stack |-> [j \in 0..15 |-> 0]]

Timers_new == [dt |-> 0, st |-> 0]

\* Application::new
Chip8_new(rom) ==
    [registers |-> Registers_new,
     timers |-> Timers_new,
     memory |-> with_rom(rom),
     display |-> Display_new,
     keyboard |-> Keyboard_new,
     waiting_key_for |-> None]


---------------------------------------------------------------------------
(* One call of update runs on a record w: the machine, the panic it may    *)
(* raise, and what it logs.  A statement that follows a panic is not run.  *)

Panic(w, msg) == [w EXCEPT !.panic = msg]

INDEX_OUT_OF_BOUNDS == <<"index out of bounds">>

\* an arithmetic overflow: a panic in a debug build, the wrapped result in a release build
overflow(w, msg, wrapped) == IF overflow_checks THEN Panic(w, <<msg>>) ELSE wrapped

\* self.registers.pc += n
pc_add(w, n) ==
    IF w.panic # None THEN w
    ELSE LET sum == w.chip8.registers.pc + n
         IN  IF sum >= U16_MOD
             THEN overflow(w, "attempt to add with overflow",
                           [w EXCEPT !.chip8.registers.pc = sum % U16_MOD])
             ELSE [w EXCEPT !.chip8.registers.pc = sum]

\* self.registers.v[x as usize] = value
set_v(w, x, value) == [w EXCEPT !.chip8.registers.v[x] = value]

\* a faulty store: the address is cut to its low byte before it is indexed
store_low_byte(w, addr, value) ==
    IF w.panic # None THEN w
    ELSE [w EXCEPT !.accessed = @ \cup {addr % U8_MOD}, !.chip8.memory.at[addr % U8_MOD] = value]

\* Memory::store as execute calls it: the address is logged, then indexed
store(w, addr, value) ==
    IF w.panic # None THEN w
    ELSE IF ~in_bounds(addr)
         THEN Panic([w EXCEPT !.accessed = @ \cup {addr}], INDEX_OUT_OF_BOUNDS)
         ELSE [w EXCEPT !.accessed = @ \cup {addr}, !.chip8.memory.at[addr] = value]

\* a faulty font_addr: glyphs taken to be 4 bytes apart
font_addr_by_four(w, font) == [w EXCEPT !.chip8.registers.i = (font * 4) % U8_MOD]

\* Memory::font_addr: (font * FONT_SIZE) as u16, the product taken in u8
font_addr(w, font) ==
    LET product == font * FONT_SIZE
    IN  IF product >= U8_MOD
        THEN overflow(w, "attempt to multiply with overflow",
                      [w EXCEPT !.chip8.registers.i = product % U8_MOD])
        ELSE [w EXCEPT !.chip8.registers.i = product]

\* 00E0 CLS
op_00E0(w) == pc_add([w EXCEPT !.chip8.display = clear(@)], 2)

\* 00EE RET: sp -= 1; pc = stack[sp]; pc += 2
op_00EE(w) ==
    LET sp == w.chip8.registers.sp
        w1 == IF sp = 0
              THEN overflow(w, "attempt to subtract with overflow",
                            [w EXCEPT !.chip8.registers.sp = U8_MOD - 1])
              ELSE [w EXCEPT !.chip8.registers.sp = sp - 1]
        sp1 == w1.chip8.registers.sp
    IN  IF w1.panic # None THEN w1
        ELSE IF sp1 > 15 THEN Panic(w1, INDEX_OUT_OF_BOUNDS)
        ELSE pc_add([w1 EXCEPT !.chip8.registers.pc = w1.chip8.registers.stack[sp1]], 2)

\* 1nnn JP addr
op_1nnn(w, addr) == [w EXCEPT !.chip8.registers.pc = addr]

\* a faulty 2nnn: the address after the call is pushed
op_2nnn_pushes_next(w, addr) ==
    LET r == w.chip8.registers
    IN  IF r.sp > 15 THEN Panic(w, INDEX_OUT_OF_BOUNDS)
        ELSE [w EXCEPT !.chip8.registers.stack[r.sp] = r.pc + 2,
                       !.chip8.registers.sp = r.sp + 1,
                       !.chip8.registers.pc = addr]

\* 2nnn CALL addr: stack[sp] = pc; sp += 1; pc = addr
op_2nnn(w, addr) ==
    LET r == w.chip8.registers
    IN  IF r.sp > 15 THEN Panic(w, INDEX_OUT_OF_BOUNDS)
        ELSE LET w1 == [w EXCEPT !.chip8.registers.stack[r.sp] = r.pc]
                 w2 == IF r.sp + 1 >= U8_MOD
                       THEN overflow(w1, "attempt to add with overflow",
                                     [w1 EXCEPT !.chip8.registers.sp = (r.sp + 1) % U8_MOD])
                       ELSE [w1 EXCEPT !.chip8.registers.sp = r.sp + 1]
             IN  IF w2.panic # None THEN w2
                 ELSE [w2 EXCEPT !.chip8.registers.pc = addr]

\* the skip instructions: pc += 4 when the condition holds, else pc += 2
skip_if(w, condition) == pc_add(w, IF condition THEN 4 ELSE 2)

\* 3xkk SE Vx, byte
op_3xkk(w, x, value) == skip_if(w, w.chip8.registers.v[x] = value)

\* 4xkk SNE Vx, byte
op_4xkk(w, x, value) == skip_if(w, w.chip8.registers.v[x] # value)

\* 5xy0 SE Vx, Vy
op_5xy0(w, x, y) == skip_if(w, w.chip8.registers.v[x] = w.chip8.registers.v[y])

\* 6xkk LD Vx, byte
op_6xkk(w, x, value) == pc_add(set_v(w, x, value), 2)

\* a faulty 7xkk: the carry of the addition is written to VF
op_7xkk_with_carry(w, x, value) ==
    LET sum == w.chip8.registers.v[x] + value
    IN  pc_add(set_v(set_v(w, x, sum % U8_MOD), 15, IF sum >= U8_MOD THEN 1 ELSE 0), 2)

\* 7xkk ADD Vx, byte: wrapping_add
op_7xkk(w, x, value) == pc_add(set_v(w, x, (w.chip8.registers.v[x] + value) % U8_MOD), 2)

\* 8xy0 LD Vx, Vy
op_8xy0(w, x, y) == pc_add(set_v(w, x, w.chip8.registers.v[y]), 2)

\* 8xy1 OR Vx, Vy
op_8xy1(w, x, y) == pc_add(set_v(w, x, bit_or(w.chip8.registers.v[x], w.chip8.registers.v[y])), 2)

\* 8xy2 AND Vx, Vy
op_8xy2(w, x, y) == pc_add(set_v(w, x, bit_and(w.chip8.registers.v[x], w.chip8.registers.v[y])), 2)

\* 8xy3 XOR Vx, Vy
op_8xy3(w, x, y) == pc_add(set_v(w, x, bit_xor(w.chip8.registers.v[x], w.chip8.registers.v[y])), 2)

\* 8xy4 ADD Vx, Vy: overflowing_add, the result to Vx and then the carry to VF
op_8xy4(w, x, y) ==
    LET vx == w.chip8.registers.v[x]
        vy == w.chip8.registers.v[y]
        result == (vx + vy) % U8_MOD
        carry == vx + vy >= U8_MOD
    IN  pc_add(set_v(set_v(w, x, result), 15, IF carry THEN 1 ELSE 0), 2)

\* a faulty 8xy5: VF is 1 only when Vx > Vy
op_8xy5_strict(w, x, y) ==
    LET vx == w.chip8.registers.v[x]
        vy == w.chip8.registers.v[y]
        result == (vx - vy + U8_MOD) % U8_MOD
    IN  pc_add(set_v(set_v(w, x, result), 15, IF vx > vy THEN 1 ELSE 0), 2)

\* 8xy5 SUB Vx, Vy: overflowing_sub, the result to Vx and then not-borrow to VF
op_8xy5(w, x, y) ==
    LET vx == w.chip8.registers.v[x]
        vy == w.chip8.registers.v[y]
        result == (vx - vy + U8_MOD) % U8_MOD
        bollow == vx < vy
    IN  pc_add(set_v(set_v(w, x, result), 15, IF ~bollow THEN 1 ELSE 0), 2)

\* 8xy6 SHR Vx: the low bit to VF and then vx >> 1 to Vx
op_8xy6(w, x) ==
    LET vx == w.chip8.registers.v[x]
    IN  pc_add(set_v(set_v(w, 15, IF vx % 2 = 1 THEN 1 ELSE 0), x, vx \div 2), 2)

\* 8xy7 SUBN Vx, Vy
op_8xy7(w, x, y) ==
    LET vx == w.chip8.registers.v[x]
        vy == w.chip8.registers.v[y]
        result == (vy - vx + U8_MOD) % U8_MOD
        bollow == vy < vx
    IN  pc_add(set_v(set_v(w, x, result), 15, IF ~bollow THEN 1 ELSE 0), 2)

\* 8xyE SHL Vx: the high bit to VF and then vx << 1 (in u8) to Vx
op_8xyE(w, x) ==
    LET vx == w.chip8.registers.v[x]
    IN  pc_add(set_v(set_v(w, 15, IF (vx \div 128) % 2 = 1 THEN 1 ELSE 0), x, (vx * 2) % U8_MOD), 2)

\* 9xy0 SNE Vx, Vy
op_9xy0(w, x, y) == skip_if(w, w.chip8.registers.v[x] # w.chip8.registers.v[y])

\* Annn LD I, addr
op_Annn(w, addr) == pc_add([w EXCEPT !.chip8.registers.i = addr], 2)

\* Bnnn JP V0, addr: pc = addr + v0 as u16
op_Bnnn(w, addr) == [w EXCEPT !.chip8.registers.pc = addr + w.chip8.registers.v[0]]

\* Cxkk RND Vx, byte: random & value
op_Cxkk(w, x, value, random) == pc_add(set_v(w, x, bit_and(random, value)), 2)

\* Dxyn DRW Vx, Vy, n: the sprite is the slice at[from..from + n]
op_Dxyn(w, x, y, n) ==
    LET from == w.chip8.registers.i
        w1 == [w EXCEPT !.accessed = @ \cup (from..(from + n - 1))]
    IN  IF from + n > MEMORY_SIZE THEN Panic(w1, INDEX_OUT_OF_BOUNDS)
        ELSE LET sprite == load_sprite(w.chip8.memory, from, n)
                 corner_x == w.chip8.registers.v[x]
                 corner_y == w.chip8.registers.v[y]
                 drawn == draw_sprite(w.chip8.display, corner_x, corner_y, sprite)
                 w2 == [w1 EXCEPT !.chip8.display = drawn.display]
             IN  pc_add(set_v(w2, 15, IF drawn.collision THEN 1 ELSE 0), 2)

\* Ex9E SKP Vx
op_Ex9E(w, x) == skip_if(w, is_pressed(w.chip8.keyboard, w.chip8.registers.v[x]))

\* a faulty ExA1: it skips when the key is pressed, as Ex9E does
op_ExA1_skips_if_pressed(w, x) == skip_if(w, is_pressed(w.chip8.keyboard, w.chip8.registers.v[x]))

\* ExA1 SKNP Vx
op_ExA1(w, x) == skip_if(w, ~is_pressed(w.chip8.keyboard, w.chip8.registers.v[x]))

\* Fx07 LD Vx, DT
op_Fx07(w, x) == pc_add(set_v(w, x, w.chip8.timers.dt), 2)

\* Fx0A LD Vx, K
op_Fx0A(w, x) == pc_add([w EXCEPT !.chip8.waiting_key_for = Some(x)], 2)

\* Fx15 LD DT, Vx
op_Fx15(w, x) == pc_add([w EXCEPT !.chip8.timers.dt = w.chip8.registers.v[x]], 2)

\* Fx18 LD ST, Vx
op_Fx18(w, x) == pc_add([w EXCEPT !.chip8.timers.st = w.chip8.registers.v[x]], 2)

\* Fx1E ADD I, Vx: i += v[x] as u16
op_Fx1E(w, x) ==
    LET sum == w.chip8.registers.i + w.chip8.registers.v[x]
    IN  IF sum >= U16_MOD
        THEN pc_add(overflow(w, "attempt to add with overflow",
                             [w EXCEPT !.chip8.registers.i = sum % U16_MOD]), 2)
        ELSE pc_add([w EXCEPT !.chip8.registers.i = sum], 2)

\* Fx29 LD F, Vx
op_Fx29(w, x) == pc_add(font_addr(w, w.chip8.registers.v[x]), 2)

\* Fx33 LD B, Vx: hundreds, tens, ones at from, from + 1, from + 2
op_Fx33(w, x) ==
    LET from == w.chip8.registers.i
        value == w.chip8.registers.v[x]
    IN  pc_add(store(store(store(w, from, value \div 100),
                           from + 1, (value \div 10) % 10),
                     from + 2, value % 10), 2)

\* a faulty loop of Fx55: for offset in 0..x, the range without its end
RECURSIVE store_registers_exclusive(_, _, _, _)
store_registers_exclusive(w, from, x, offset) ==
    IF offset >= x \/ w.panic # None THEN w
    ELSE store_registers_exclusive(store(w, from + offset, w.chip8.registers.v[offset]), from, x, offset + 1)

\* the loop of Fx55: for offset in 0..=x, store(from + offset, v[offset])
RECURSIVE store_registers(_, _, _, _)
store_registers(w, from, x, offset) ==
    IF offset > x \/ w.panic # None THEN w
    ELSE store_registers(store(w, from + offset, w.chip8.registers.v[offset]), from, x, offset + 1)

\* Fx55 LD [I], Vx
op_Fx55(w, x) == pc_add(store_registers(w, w.chip8.registers.i, x, 0), 2)

\* the loop of Fx65: for offset in 0..=x, v[offset] = load(from + offset)
RECURSIVE load_registers(_, _, _, _)
load_registers(w, from, x, offset) ==
    IF offset > x \/ w.panic # None THEN w
    ELSE LET addr == from + offset
             w1 == [w EXCEPT !.accessed = @ \cup {addr}]
         IN  IF ~in_bounds(addr) THEN Panic(w1, INDEX_OUT_OF_BOUNDS)
             ELSE load_registers(set_v(w1, offset, load(w.chip8.memory, addr)), from, x, offset + 1)

\* Fx65 LD Vx, [I]
op_Fx65(w, x) == pc_add(load_registers(w, w.chip8.registers.i, x, 0), 2)

\* a faulty default arm: the word is skipped as if it did nothing
unsupported_skips(w, h1, h2, h3, h4) == pc_add(w, 2)

\* the default arm: panic!("UNSUPPORTED INST: ...")
unsupported(w, h1, h2, h3, h4) == Panic(w, <<"UNSUPPORTED INST", h1, h2, h3, h4>>)

\* Chip8::execute: the trace! of the instruction, then the match on its nibbles
execute(w, h1, h2, h3, h4, random) ==
    LET t == [w EXCEPT !.trace = Some([pc |-> w.chip8.registers.pc, h |-> <<h1, h2, h3, h4>>])]
    IN  CASE h1 = 0 /\ h2 = 0 /\ h3 = 14 /\ h4 = 0 -> op_00E0(t)
          [] h1 = 0 /\ h2 = 0 /\ h3 = 14 /\ h4 = 14 -> op_00EE(t)
          [] h1 = 1 -> op_1nnn(t, address_of(h2, h3, h4))
          [] h1 = 2 -> op_2nnn(t, address_of(h2, h3, h4))
          [] h1 = 3 -> op_3xkk(t, h2, value_of(h3, h4))
          [] h1 = 4 -> op_4xkk(t, h2, value_of(h3, h4))
          [] h1 = 5 /\ h4 = 0 -> op_5xy0(t, h2, h3)
          [] h1 = 6 -> op_6xkk(t, h2, value_of(h3, h4))
          [] h1 = 7 -> op_7xkk(t, h2, value_of(h3, h4))
          [] h1 = 8 /\ h4 = 0 -> op_8xy0(t, h2, h3)
          [] h1 = 8 /\ h4 = 1 -> op_8xy1(t, h2, h3)
          [] h1 = 8 /\ h4 = 2 -> op_8xy2(t, h2, h3)
          [] h1 = 8 /\ h4 = 3 -> op_8xy3(t, h2, h3)
          [] h1 = 8 /\ h4 = 4 -> op_8xy4(t, h2, h3)
          [] h1 = 8 /\ h4 = 5 -> op_8xy5(t, h2, h3)
          [] h1 = 8 /\ h4 = 6 -> op_8xy6(t, h2)
          [] h1 = 8 /\ h4 = 7 -> op_8xy7(t, h2, h3)
          [] h1 = 8 /\ h4 = 14 -> op_8xyE(t, h2)
          [] h1 = 9 /\ h4 = 0 -> op_9xy0(t, h2, h3)
          [] h1 = 10 -> op_Annn(t, address_of(h2, h3, h4))
          [] h1 = 11 -> op_Bnnn(t, address_of(h2, h3, h4))
          [] h1 = 12 -> op_Cxkk(t, h2, value_of(h3, h4), random)
          [] h1 = 13 -> op_Dxyn(t, h2, h3, h4)
          [] h1 = 14 /\ h3 = 9 /\ h4 = 14 -> op_Ex9E(t, h2)
          [] h1 = 14 /\ h3 = 10 /\ h4 = 1 -> op_ExA1(t, h2)
          [] h1 = 15 /\ h3 = 0 /\ h4 = 7 -> op_Fx07(t, h2)
          [] h1 = 15 /\ h3 = 0 /\ h4 = 10 -> op_Fx0A(t, h2)
          [] h1 = 15 /\ h3 = 1 /\ h4 = 5 -> op_Fx15(t, h2)
          [] h1 = 15 /\ h3 = 1 /\ h4 = 8 -> op_Fx18(t, h2)
          [] h1 = 15 /\ h3 = 1 /\ h4 = 14 -> op_Fx1E(t, h2)
          [] h1 = 15 /\ h3 = 2 /\ h4 = 9 -> op_Fx29(t, h2)
          [] h1 = 15 /\ h3 = 3 /\ h4 = 3 -> op_Fx33(t, h2)
          [] h1 = 15 /\ h3 = 5 /\ h4 = 5 -> op_Fx55(t, h2)
          [] h1 = 15 /\ h3 = 6 /\ h4 = 5 -> op_Fx65(t, h2)
          [] OTHER -> unsupported(t, h1, h2, h3, h4)


---------------------------------------------------------------------------
(* Chip8::update, one arm per Message. *)

\* Buzzer::on and Buzzer::off: self.volume.send(..)
buzzer_on(w) == [w EXCEPT !.sent = Append(@, ON)]
buzzer_off(w) == [w EXCEPT !.sent = Append(@, OFF)]

\* a faulty Clock arm: it fetches and executes although a key is awaited
update_Clock_ignores_wait(w, random) ==
    LET pc == w.chip8.registers.pc
        w2 == [w EXCEPT !.accessed = @ \cup {pc, pc + 1}]
    IN  IF ~in_bounds(pc) \/ ~in_bounds(pc + 1) THEN Panic(w2, INDEX_OUT_OF_BOUNDS)
        ELSE LET b1 == load(w.chip8.memory, pc)
                 b2 == load(w.chip8.memory, pc + 1)
             IN  execute(w2, b1 \div 16, b1 % 16, b2 \div 16, b2 % 16, random)

\* Message::Clock: fetch b1, b2 at pc and pc + 1 and execute, unless a key is awaited
update_Clock(w, random) ==
    IF w.chip8.waiting_key_for # None THEN w
    ELSE LET pc == w.chip8.registers.pc
             w1 == [w EXCEPT !.accessed = @ \cup {pc}]
             w2 == [w1 EXCEPT !.accessed = @ \cup {pc + 1}]
         IN  IF ~in_bounds(pc) THEN Panic(w1, INDEX_OUT_OF_BOUNDS)
             ELSE IF ~in_bounds(pc + 1) THEN Panic(w2, INDEX_OUT_OF_BOUNDS)
             ELSE LET b1 == load(w.chip8.memory, pc)
                      b2 == load(w.chip8.memory, pc + 1)
                  IN  execute(w2, b1 \div 16, b1 % 16, b2 \div 16, b2 % 16, random)

\* a faulty TickTimers arm: the sound timer is decremented before it is tested
update_TickTimers_decrement_first(w) ==
    LET w1 == IF w.chip8.timers.dt > 0 THEN [w EXCEPT !.chip8.timers.dt = @ - 1] ELSE w
        w2 == IF w1.chip8.timers.st > 0 THEN [w1 EXCEPT !.chip8.timers.st = @ - 1] ELSE w1
    IN  IF w2.chip8.timers.st > 0 THEN buzzer_on(w2) ELSE buzzer_off(w2)

\* a faulty TickTimers arm: the timers are decremented with wrapping_sub and no test
update_TickTimers_wrapping(w) ==
    LET w1 == [w EXCEPT !.chip8.timers.dt = (@ + U8_MOD - 1) % U8_MOD]
    IN  IF w1.chip8.timers.st > 0
        THEN [buzzer_on(w1) EXCEPT !.chip8.timers.st = @ - 1]
        ELSE buzzer_off(w1)

\* a faulty TickTimers arm: the buzzer is switched off on the tick that takes the sound timer to 0
update_TickTimers_off_at_zero(w) ==
    LET w1 == IF w.chip8.timers.dt > 0 THEN [w EXCEPT !.chip8.timers.dt = @ - 1] ELSE w
    IN  IF w1.chip8.timers.st > 1
        THEN [buzzer_on(w1) EXCEPT !.chip8.timers.st = @ - 1]
        ELSE buzzer_off([w1 EXCEPT !.chip8.timers.st = 0])

\* a faulty TickTimers arm: the timers stand still while a key is awaited
update_TickTimers_only_running(w) ==
    IF w.chip8.waiting_key_for # None THEN w
    ELSE LET w1 == IF w.chip8.timers.dt > 0
                   THEN [w EXCEPT !.chip8.timers.dt = @ - 1]
                   ELSE w
         IN  IF w1.chip8.timers.st > 0
             THEN [buzzer_on(w1) EXCEPT !.chip8.timers.st = @ - 1]
             ELSE buzzer_off(w1)

\* Message::TickTimers: the delay timer, then the sound timer and the buzzer
update_TickTimers(w) ==
    LET w1 == IF w.chip8.timers.dt > 0
              THEN [w EXCEPT !.chip8.timers.dt = @ - 1]
              ELSE w
    IN  IF w1.chip8.timers.st > 0
        THEN [buzzer_on(w1) EXCEPT !.chip8.timers.st = @ - 1]
        ELSE buzzer_off(w1)

\* a faulty FromDisplay arm: the render event steps over an instruction
update_FromDisplay_steps(w) == pc_add(w, 2)

\* Message::FromDisplay: noop
update_FromDisplay(w) == w

\* a faulty FromKeyboard arm: the Press is written but the wait is not cleared
update_FromKeyboard_keeps_waiting(w, msg) ==
    LET w1 == IF msg[1] = "Press" /\ w.chip8.waiting_key_for # None
              THEN set_v(w, w.chip8.waiting_key_for[1], msg[2])
              ELSE w
    IN  [w1 EXCEPT !.chip8.keyboard = Keyboard_update(@, msg)]

\* a faulty FromKeyboard arm: a Release resolves the wait as a Press does
update_FromKeyboard_any_event(w, msg) ==
    LET w1 == IF w.chip8.waiting_key_for # None
              THEN [set_v(w, w.chip8.waiting_key_for[1], msg[2]) EXCEPT !.chip8.waiting_key_for = None]
              ELSE w
    IN  [w1 EXCEPT !.chip8.keyboard = Keyboard_update(@, msg)]

\* Message::FromKeyboard: a Press resolves a pending wait; then Keyboard::update
update_FromKeyboard(w, msg) ==
    LET w1 == IF msg[1] = "Press" /\ w.chip8.waiting_key_for # None
              THEN [set_v(w, w.chip8.waiting_key_for[1], msg[2]) EXCEPT !.chip8.waiting_key_for = None]
              ELSE w
    IN  [w1 EXCEPT !.chip8.keyboard = Keyboard_update(@, msg)]

\* Chip8::update
update(w, msg, random) ==
    CASE msg[1] = "Clock" -> update_Clock(w, random)
      [] msg[1] = "TickTimers" -> update_TickTimers(w)
      [] msg[1] = "FromDisplay" -> update_FromDisplay(w)
      [] msg[1] \in {"Press", "Release"} -> update_FromKeyboard(w, msg)

---------------------------------------------------------------------------
(* The world: the application, the audio callback, the ROMs it is run on.  *)

\* one instruction word as its two bytes
Ins(h1, h2, h3, h4) == << h1 * 16 + h2, h3 * 16 + h4 >>

\* F30A 6A3C 1200: LD V3, K; LD VA, 0x3C; JP 0x200
RomWaitKey == Ins(15, 3, 0, 10) \o Ins(6, 10, 3, 12) \o Ins(1, 2, 0, 0)
\* 6003 F018 6102 F115 1208: ST = 3, DT = 2, then JP 0x208 for ever
RomTimers == Ins(6, 0, 0, 3) \o Ins(15, 0, 1, 8) \o Ins(6, 1, 0, 2) \o Ins(15, 1, 1, 5) \o Ins(1, 2, 0, 8)
\* 2200: CALL 0x200 for ever
RomCallLoop == Ins(2, 2, 0, 0)
\* 00EE: RET on an empty stack
RomRet == Ins(0, 0, 14, 14)
\* 2206 2206 1204 00EE: two calls of the subroutine at 0x206, then JP 0x204 for ever
RomCallRet == Ins(2, 2, 0, 6) \o Ins(2, 2, 0, 6) \o Ins(1, 2, 0, 4) \o Ins(0, 0, 14, 14)
\* 6A3C 2206 1204 220A 00EE 00EE: VA = 0x3C; a call at 0x202 of a subroutine at 0x206
\* that calls the subroutine at 0x20A; after both returns JP 0x204 for ever
RomNested == Ins(6, 10, 3, 12) \o Ins(2, 2, 0, 6) \o Ins(1, 2, 0, 4) \o Ins(2, 2, 0, 10)
             \o Ins(0, 0, 14, 14) \o Ins(0, 0, 14, 14)
\* F00A E09E E0A1 61FF E19E E1A1 1200 1200: LD V0, K; SKP V0; SKNP V0; V1 = 0xFF; SKP V1;
\* SKNP V1; JP 0x200
RomSkipKey == Ins(15, 0, 0, 10) \o Ins(14, 0, 9, 14) \o Ins(14, 0, 10, 1) \o Ins(6, 1, 15, 15)
              \o Ins(14, 1, 9, 14) \o Ins(14, 1, 10, 1) \o Ins(1, 2, 0, 0) \o Ins(1, 2, 0, 0)
\* 1FFF: JP 0xFFF
RomJumpEnd == Ins(1, 15, 15, 15)
\* 60FF BFFF: V0 = 0xFF; JP V0, 0xFFF
RomJumpV0 == Ins(6, 0, 15, 15) \o Ins(11, 15, 15, 15)
\* AFFE F033: I = 0xFFE; LD B, V0
RomBcdEnd == Ins(10, 15, 15, 14) \o Ins(15, 0, 3, 3)
\* AFFD F033 AFFF F155 F165 F11E D001: accesses that stay in memory, then I = 0x1000
RomInside == Ins(10, 15, 15, 13) \o Ins(15, 0, 3, 3) \o Ins(10, 15, 15, 15) \o Ins(15, 0, 5, 5)
             \o Ins(15, 0, 6, 5) \o Ins(6, 1, 0, 1) \o Ins(15, 1, 1, 14) \o Ins(13, 0, 0, 1)
\* AFFF F155: I = 0xFFF; LD [I], V1
RomStoreEnd == Ins(10, 15, 15, 15) \o Ins(15, 1, 5, 5)
\* AFFF F165: I = 0xFFF; LD V1, [I]
RomLoadEnd == Ins(10, 15, 15, 15) \o Ins(15, 1, 6, 5)

\* AFFE D003: I = 0xFFE; DRW V0, V0, 3
RomSpriteEnd == Ins(10, 15, 15, 14) \o Ins(13, 0, 0, 3)
\* 6001 F018 1200: ST = 1, over and over
RomTimersAgain == Ins(6, 0, 0, 1) \o Ins(15, 0, 1, 8) \o Ins(1, 2, 0, 0)
\* 603E 611F D012 1204: V0 = 62, V1 = 31; DRW V0, V1, 2 (the rows 0xF0, 0x90 of the glyph at I = 0) for ever
RomDraw == Ins(6, 0, 3, 14) \o Ins(6, 1, 1, 15) \o Ins(13, 0, 1, 2) \o Ins(1, 2, 0, 4)
\* 6A1F FA15 DAA2 00E0 1204: VA = 31, DT = 31; DRW VA, VA, 2 (two rows of the glyph at I = 0) and CLS for ever
RomClear == Ins(6, 10, 1, 15) \o Ins(15, 10, 1, 5) \o Ins(13, 10, 10, 2) \o Ins(0, 0, 14, 0) \o Ins(1, 2, 0, 4)
\* F029 7001 3010 1200 1208: LD F, V0 for V0 = 0 .. 15, then JP 0x208 for ever
RomFontLoop == Ins(15, 0, 2, 9) \o Ins(7, 0, 0, 1) \o Ins(3, 0, 1, 0) \o Ins(1, 2, 0, 0) \o Ins(1, 2, 0, 8)
\* no byte at all
RomEmpty == <<>>
\* 1200 and non-zero bytes after it, n bytes in all
RomOfLen(n) == [k \in 1..n |-> IF k = 1 THEN 18 ELSE IF k = 2 THEN 0 ELSE (k % 255) + 1]
\* the longest ROM that fits from 0x200 to 0xFFF, and a ROM one byte longer
RomFull == RomOfLen(MEMORY_SIZE - ROM_FROM)
RomTooLong == RomOfLen(MEMORY_SIZE - ROM_FROM + 1)

\* 6xaa 6ybb, the word h1 x y h4 on Vx = aa (bb when y = x) and Vy = bb, then JP 0x206 for ever
RomBinary(h1, x, a, y, b, h4) ==
    Ins(6, x, a \div 16, a % 16) \o Ins(6, y, b \div 16, b % 16) \o Ins(h1, x, y, h4) \o Ins(1, 2, 0, 6)
\* the registers and the bytes the arithmetic instructions are run on
AluRegs == {0, 1, 15}
AluValues == {0, 1, 127, 128, 255}
\* 8xy4, 8xy5, 8xy7 on each pair of registers and bytes
AddSubRoms == { RomBinary(8, x, a, y, b, h4) : x \in AluRegs, a \in AluValues, y \in AluRegs, b \in AluValues, h4 \in {4, 5, 7} }
\* 8xy6, 8xyE on Vx = a with Vy = 255
ShiftValues == {0, 1, 2, 127, 128, 129, 255}
ShiftRoms == { RomBinary(8, x, a, 1, 255, h4) : x \in {0, 15}, a \in ShiftValues, h4 \in {6, 14} }
\* 6F01 6xaa 7xkk 1206: VF = 1; Vx = aa; ADD Vx, kk
AddByteValues == {0, 1, 60, 255}
AddByteRoms == { Ins(6, 15, 0, 1) \o Ins(6, x, a \div 16, a % 16) \o Ins(7, x, kk \div 16, kk % 16) \o Ins(1, 2, 0, 6) :
                   x \in {0, 10, 15}, a \in AddByteValues, kk \in AddByteValues }

\* V0..V2 and VF are set, I is set and V0..Vx are stored; V0 (and V1 when x > 0) are
\* overwritten and V0..Vx are loaded again, then the program jumps to itself
RomTransfer(x, i) ==
    Ins(6, 0, 1, 1) \o Ins(6, 1, 2, 2) \o Ins(6, 2, 3, 3) \o Ins(6, 15, 4, 4)
    \o Ins(10, i \div 256, (i \div 16) % 16, i % 16) \o Ins(15, x, 5, 5)
    \o Ins(6, 0, 10, 10) \o (IF x > 0 THEN Ins(6, 1, 11, 11) ELSE Ins(6, 0, 12, 12))
    \o Ins(15, x, 6, 5) \o Ins(1, 2, 1, 2)
TransferRoms == { RomTransfer(x, i) : x \in {0, 1, 2, 15}, i \in {768, 4080, 4094} }

\* Vx is drawn at random under the mask kk, then the program jumps to itself
RomRandom(x, kk) == Ins(12, x, kk \div 16, kk % 16) \o Ins(1, 2, 0, 2)
RandomRoms == { RomRandom(x, kk) : x \in {0, 15}, kk \in {0, 15, 255} }

\* 6001 F015 6002 F018 D002 F10A 120C: DT = 1, ST = 2; DRW V0, V0, 2 (two rows of the
\* glyph at I = 0); LD V1, K; then JP 0x20C for ever
RomTimedWait == Ins(6, 0, 0, 1) \o Ins(15, 0, 1, 5) \o Ins(6, 0, 0, 2) \o Ins(15, 0, 1, 8)
                \o Ins(13, 0, 0, 2) \o Ins(15, 1, 0, 10) \o Ins(1, 2, 0, 12)

\* the words the match of execute is run on: every last nibble of 5xyN, 8xyN and 9xyN,
\* every low byte of Exkk and Fxkk, 00E0 and 00EE and words near them, one word of each
\* other first nibble
DispatchWords ==
    { <<0, h2, h3, h4>> : h2 \in {0, 1}, h3 \in {0, 14}, h4 \in {0, 1, 14, 15} }
    \cup { <<h1, 0, 1, h4>> : h1 \in {5, 8, 9}, h4 \in 0..15 }
    \cup { <<h1, 0, h3, h4>> : h1 \in {14, 15}, h3 \in 0..15, h4 \in 0..15 }
    \cup { <<h1, 2, 0, 0>> : h1 \in {1, 2, 3, 4, 6, 7, 10, 11, 12, 13} }
\* a ROM of one word
DispatchRoms == { Ins(h[1], h[2], h[3], h[4]) : h \in DispatchWords }

\* 6034 F029: V0 = 52; LD F, V0
RomFontBig == Ins(6, 0, 3, 4) \o Ins(15, 0, 2, 9)
\* AFFF 60FF F01E 7101 3100 1204 120C: I = 0xFFF, V0 = 0xFF; ADD I, V0 256 times, then JP 0x20C for ever
RomAddI == Ins(10, 15, 15, 15) \o Ins(6, 0, 15, 15) \o Ins(15, 0, 1, 14) \o Ins(7, 1, 0, 1)
           \o Ins(3, 1, 0, 0) \o Ins(1, 2, 0, 4) \o Ins(1, 2, 0, 12)
OverflowRoms == { RomRet, RomCallLoop, RomFontBig, RomAddI }

\* Flags.rom: the ROM files the machine is run on
KeyRoms == { RomWaitKey }
TimerRoms == { RomTimers, RomTimersAgain }
StackRoms == { RomCallLoop, RomRet, RomCallRet, RomNested }
MemoryRoms == { RomJumpEnd, RomJumpV0, RomBcdEnd, RomInside, RomStoreEnd, RomLoadEnd, RomSpriteEnd }
DisplayRoms == { RomDraw }
ClearRoms == { RomClear }
LoadRoms == { RomFontLoop, RomEmpty, RomFull, RomTooLong }
Roms == KeyRoms \cup TimerRoms \cup StackRoms \cup MemoryRoms \cup DisplayRoms \cup ClearRoms

\* the record one call of update runs on
World == [chip8 |-> chip8, panic |-> panic, accessed |-> {}, trace |-> trace, sent |-> <<>>]

\* the application delivers msg to update
Deliver(msg, random) ==
    LET w == update(World, msg, random)
    IN  /\ chip8' = w.chip8
        /\ panic' = w.panic
        /\ accessed' = w.accessed
        /\ trace' = w.trace
        /\ channel' = channel \o w.sent
        /\ message' = msg
        /\ call' = None
        /\ UNCHANGED <<flags, volume, overflow_checks>>

\* rng.gen_range(0..0xFF), drawn only when the instruction at pc is Cxkk
Randoms ==
    IF /\ chip8.waiting_key_for = None
       /\ in_bounds(chip8.registers.pc)
       /\ load(chip8.memory, chip8.registers.pc) \div 16 = 12
    THEN 0..(RANDOM_END - 1)
    ELSE {0}

InitWith(roms) ==
    /\ \E rom \in roms : flags = [rom |-> rom]
    /\ chip8 = Chip8_new(flags.rom)
    /\ channel = <<>>
    /\ volume = OFF
    /\ panic = IF with_rom_panics(flags.rom) THEN INDEX_OUT_OF_BOUNDS ELSE None
    /\ overflow_checks \in BOOLEAN
    /\ message = <<"None">>
    /\ trace = None
    /\ accessed = {}
    /\ call = None

Init == InitWith(Roms)

\* every(Duration::from_millis(1000 / clock_speed)).map(Message::Clock)
Clock ==
    /\ panic = None
    /\ \E random \in Randoms : Deliver(<<"Clock">>, random)

\* every(Duration::from_millis(16)).map(Message::TickTimers)
TickTimers ==
    /\ panic = None
    /\ Len(channel) < MaxChannel
    /\ Deliver(<<"TickTimers">>, 0)

\* view: self.display.view().map(|_| Message::FromDisplay)
FromDisplay ==
    /\ panic = None
    /\ Deliver(<<"FromDisplay">>, 0)

\* Keyboard::subscription: KeyPressed of a mapped key
Press ==
    /\ panic = None
    /\ \E value \in Keys : Deliver(<<"Press", value>>, 0)

\* Keyboard::subscription: KeyReleased of a mapped key
Release ==
    /\ panic = None
    /\ \E value \in Keys : Deliver(<<"Release", value>>, 0)

\* run_stream's next_value, on the audio thread: try_recv one volume
NextValue ==
    /\ panic = None
    /\ IF channel # <<>>
       THEN volume' = Head(channel) /\ channel' = Tail(channel)
       ELSE UNCHANGED <<volume, channel>>
    /\ UNCHANGED <<flags, chip8, panic, overflow_checks, message, trace, accessed, call>>

Next == Clock \/ TickTimers \/ FromDisplay \/ Press \/ Release \/ NextValue

Spec == Init /\ [][Next]_vars

\* the machine run on the ROMs that wait for a key
InitKey == InitWith(KeyRoms)
SpecKey == InitKey /\ [][Next]_vars

\* the machine run on the ROMs that skip on a key
SpecSkip == InitWith({ RomSkipKey }) /\ [][Next]_vars

\* the machine run on the ROMs that set the timers
InitTimers == InitWith(TimerRoms)
SpecTimers == InitTimers /\ [][Next]_vars

\* the machine run on the ROMs that call and return
InitStack == InitWith(StackRoms)
SpecStack == InitStack /\ [][Next]_vars

\* the machine run on the ROMs that address the ends of memory
InitMemory == InitWith(MemoryRoms)
SpecMemory == InitMemory /\ [][Next]_vars

\* the machine under the clock alone
NextClock == Clock

\* the machine loaded with ROMs of every length up to and over the end of memory
InitLoad == InitWith(LoadRoms)
SpecLoad == InitLoad /\ [][NextClock]_vars

\* the machine run on one word of each kind
InitDispatch == InitWith(DispatchRoms)
SpecDispatch == InitDispatch /\ [][NextClock]_vars

\* the machine run on the ROMs whose arithmetic leaves the range of its type
InitOverflow == InitWith(OverflowRoms)
SpecOverflow == InitOverflow /\ [][NextClock]_vars

\* the machine run on the additions and subtractions of registers
InitAddSub == InitWith(AddSubRoms)
SpecAddSub == InitAddSub /\ [][NextClock]_vars

\* the machine run on the shifts
InitShift == InitWith(ShiftRoms)
SpecShift == InitShift /\ [][NextClock]_vars

\* the machine run on the additions of a byte
InitAddByte == InitWith(AddByteRoms)
SpecAddByte == InitAddByte /\ [][NextClock]_vars

\* the machine run on the stores and loads of blocks of registers
SpecTransfer == InitWith(TransferRoms) /\ [][NextClock]_vars

\* the machine run on the random draws
SpecRandom == InitWith(RandomRoms) /\ [][NextClock]_vars

\* the machine run on the ROMs that wait for a key while the timers count
SpecWait == InitWith({ RomTimedWait }) /\ [][Next]_vars

---------------------------------------------------------------------------
(* The Display under its methods, called directly as display.rs's tests    *)
(* call them, and by the machine's Dxyn.                                   *)

\* the origins and the sprite bytes of the direct calls
DrawXs == {60, 255}
DrawYs == {255}
SpriteBytes == {141}
RECURSIVE SpritesOfLen(_)
SpritesOfLen(n) ==
    IF n = 0 THEN { <<>> }
    ELSE { Append(sprite, b) : sprite \in SpritesOfLen(n - 1), b \in SpriteBytes }
DrawSprites == UNION { SpritesOfLen(n) : n \in 0..MaxSpriteLen }

\* display.draw_sprite(x, y, sprite), with what the call was given and what it returned
DrawSprite ==
    /\ panic = None
    /\ \E x \in DrawXs, y \in DrawYs, sprite \in DrawSprites :
         LET drawn == draw_sprite(chip8.display, x, y, sprite)
         IN  /\ chip8' = [chip8 EXCEPT !.display = drawn.display]
             /\ call' = Some([method |-> "draw_sprite", x |-> x, y |-> y, sprite |-> sprite,
                              before |-> chip8.display.at, collision |-> drawn.collision])
    /\ UNCHANGED <<flags, channel, volume, panic, overflow_checks, message, trace, accessed>>

\* display.clear()
ClearDisplay ==
    /\ panic = None
    /\ chip8' = [chip8 EXCEPT !.display = clear(@)]
    /\ call' = Some([method |-> "clear", x |-> 0, y |-> 0, sprite |-> <<>>,
                     before |-> chip8.display.at, collision |-> FALSE])
    /\ UNCHANGED <<flags, channel, volume, panic, overflow_checks, message, trace, accessed>>

InitDisplay == InitWith(DisplayRoms)
NextDisplay == DrawSprite \/ ClearDisplay \/ Clock
SpecDisplay == InitDisplay /\ [][NextDisplay]_vars

\* the same calls, and the machine run on the ROM that clears the screen
InitClear == InitWith(ClearRoms)
SpecClear == InitClear /\ [][NextDisplay]_vars

---------------------------------------------------------------------------
(* The Memory under its methods, called directly as memory.rs's tests call *)
(* them on Memory::with_rom(vec![]).                                       *)

\* the addresses and the bytes of the direct calls: the font, the ROM area, both ends
CallAddrs == {0, 79, 512, 4095}
CallValues == {0, 1, 255}

\* memory.store(addr, value)
MemoryStore ==
    /\ panic = None
    /\ \E addr \in CallAddrs, value \in CallValues :
         LET w == store(World, addr, value)
         IN  /\ chip8' = w.chip8
             /\ panic' = w.panic
             /\ accessed' = w.accessed
             /\ call' = Some([method |-> "store", addr |-> addr, value |-> value])
    /\ UNCHANGED <<flags, channel, volume, overflow_checks, message, trace>>

\* memory.load(addr), with the byte it returned
MemoryLoad ==
    /\ panic = None
    /\ \E addr \in CallAddrs :
         /\ accessed' = {addr}
         /\ call' = Some([method |-> "load", addr |-> addr, result |-> load(chip8.memory, addr)])
    /\ UNCHANGED <<flags, chip8, channel, volume, panic, overflow_checks, message, trace>>

EmptyRoms == { <<>> }
InitMemoryCalls == InitWith(EmptyRoms)
NextMemoryCalls == MemoryStore \/ MemoryLoad
SpecMemoryCalls == InitMemoryCalls /\ [][NextMemoryCalls]_vars

---------------------------------------------------------------------------
(* The claims. *)

\* the step is a call of update with msg: the audio callback alone takes from the
\* channel, and a direct call of a Display or Memory method alone records a call
Update(msg) == message' = msg /\ call' = None /\ Len(channel') >= Len(channel)

\* the instruction logged in t is Fx0A
IsFx0A(t) == t # None /\ t[1].h[1] = 15 /\ t[1].h[3] = 0 /\ t[1].h[4] = 10

\* the four nibbles of the word at addr
NibblesAt(memory, addr) ==
    << memory.at[addr] \div 16, memory.at[addr] % 16,
       memory.at[addr + 1] \div 16, memory.at[addr + 1] % 16 >>

\* C1: a wait is entered by Fx0A alone, with the register of the instruction as destination
\* and pc advanced by 2; the first Press(k) that arrives while waiting writes k to that
\* register (and to no other), clears the wait and leaves pc; the next clock step then
\* fetches and executes the word after the Fx0A, not the Fx0A again; a Press that arrives
\* while no wait is pending writes no register.
C1_WaitForKeyResolution ==
    [][ /\ (chip8.waiting_key_for = None /\ chip8'.waiting_key_for # None)
              => /\ Update(<<"Clock">>)
                 /\ IsFx0A(trace')
                 /\ trace'[1].pc = chip8.registers.pc
                 /\ chip8'.waiting_key_for = Some(trace'[1].h[2])
                 /\ chip8'.registers.pc = chip8.registers.pc + 2
        /\ \A k \in Keys :
              (chip8.waiting_key_for # None /\ Update(<<"Press", k>>))
              => /\ chip8'.registers.v = [chip8.registers.v EXCEPT ![chip8.waiting_key_for[1]] = k]
                 /\ chip8'.waiting_key_for = None
                 /\ chip8'.registers.pc = chip8.registers.pc
                 /\ trace' = trace
        /\ (chip8.waiting_key_for = None /\ IsFx0A(trace) /\ Update(<<"Clock">>))
              => /\ trace'[1].pc = trace[1].pc + 2
                 /\ trace'[1].h = NibblesAt(chip8.memory, trace[1].pc + 2)
                 /\ {trace[1].pc + 2, trace[1].pc + 3} \subseteq accessed'
        /\ \A k \in Keys :
              (chip8.waiting_key_for = None /\ Update(<<"Press", k>>))
              => chip8'.registers.v = chip8.registers.v
      ]_vars

\* a Press has resolved the wait of F30A and the clock has executed the word after it
C1_Witness ==
    /\ chip8.waiting_key_for = None
    /\ chip8.registers.v[3] = 7
    /\ message = <<"Clock">>
    /\ trace = Some([pc |-> 514, h |-> <<6, 10, 3, 12>>])
    /\ chip8.registers.v[10] = 60

\* C2: a clock event that arrives while a key is awaited fetches nothing, executes nothing
\* and leaves pc, V0..VF, I, sp, the stack, memory, the framebuffer, both timers, the
\* pressed keys and the awaited register as they were.
C2_ClockWhileWaitingIsNoop ==
    [][ (chip8.waiting_key_for # None /\ Update(<<"Clock">>))
        => /\ accessed' = {}
           /\ trace' = trace
           /\ panic' = panic
           /\ chip8'.registers = chip8.registers
           /\ chip8'.memory = chip8.memory
           /\ chip8'.display = chip8.display
           /\ chip8'.timers = chip8.timers
           /\ chip8'.keyboard = chip8.keyboard
           /\ chip8'.waiting_key_for = chip8.waiting_key_for
           /\ channel' = channel
      ]_vars

\* a clock event was delivered while a key was awaited: nothing was fetched
C2_Witness ==
    /\ chip8.waiting_key_for = Some(3)
    /\ message = <<"Clock">>
    /\ accessed = {}
    /\ IsFx0A(trace)
    /\ chip8.registers.pc = 514

\* C3: while a key is awaited, every step that is not the delivery of a Press leaves the
\* same register awaited, whatever keys are held down; a Release(k) delivered then still
\* takes k out of the pressed keys.
C3_OnlyPressResolves ==
    [][ /\ chip8.waiting_key_for # None
              => \/ chip8'.waiting_key_for = chip8.waiting_key_for
                 \/ \E k \in Keys : Update(<<"Press", k>>)
        /\ \A k \in Keys :
              (chip8.waiting_key_for # None /\ Update(<<"Release", k>>))
              => /\ chip8'.waiting_key_for = chip8.waiting_key_for
                 /\ chip8'.keyboard.pressed_keys = chip8.keyboard.pressed_keys \ {k}
                 /\ chip8'.registers = chip8.registers
      ]_vars

\* a key held down since before Fx0A was executed, a Release of another key delivered
\* during the wait, and the wait still pending
C3_Witness ==
    /\ chip8.waiting_key_for = Some(3)
    /\ message = <<"Release", 7>>
    /\ chip8.keyboard.pressed_keys = {15}

\* the volume a timer tick has sent: the last of the channel
Sent(v) == channel' = Append(channel, v)

\* C4: a timer tick that finds the sound timer positive sends ON and takes exactly 1
\* from it; one that finds it 0 sends OFF and leaves it 0.  From n > 0, with no Fx18 in
\* between, that is n ticks of ON and OFF from tick n + 1 on.
C4_SoundTimerGating ==
    [][ Update(<<"TickTimers">>)
        => IF chip8.timers.st > 0
           THEN Sent(ON) /\ chip8'.timers.st = chip8.timers.st - 1
           ELSE Sent(OFF) /\ chip8'.timers.st = 0
      ]_vars

\* the third tick after ST = 3: ON is sent and the sound timer is 0
C4_Witness ==
    /\ message = <<"TickTimers">>
    /\ chip8.timers.st = 0
    /\ chip8.timers.dt = 0
    /\ chip8.registers.v[0] = 3
    /\ channel # <<>>
    /\ channel[Len(channel)] = ON

\* C5 as claimed: the tick that takes the sound timer from 1 to 0 sends OFF.
C5_OffOnTheTickThatReachesZero ==
    [][ (Update(<<"TickTimers">>) /\ chip8.timers.st = 1) => Sent(OFF) ]_vars

\* C5 as amended: the tick that takes the sound timer from 1 to 0 sends ON; every tick
\* that finds the sound timer at 0 sends OFF, until Fx18 sets it again.
C5_OnUntilZeroThenOff ==
    [][ /\ (Update(<<"TickTimers">>) /\ chip8.timers.st = 1)
              => (Sent(ON) /\ chip8'.timers.st = 0)
        /\ (Update(<<"TickTimers">>) /\ chip8.timers.st = 0)
              => (Sent(OFF) /\ chip8'.timers.st = 0)
        /\ (chip8.timers.st = 0 /\ chip8'.timers.st # 0)
              => (Update(<<"Clock">>) /\ trace'[1].h[1] = 15 /\ trace'[1].h[3] = 1 /\ trace'[1].h[4] = 8)
      ]_vars

\* ST = 1 was set, the tick that took it to 0 sent ON and the next tick sent OFF
C5_Witness ==
    /\ message = <<"TickTimers">>
    /\ chip8.timers.st = 0
    /\ chip8.registers.v[0] = 1
    /\ channel = <<ON, OFF>>

\* C6: both timers are bytes in every state; a timer tick takes exactly 1 from each timer
\* that is positive and leaves at 0 each timer that is 0, each timer by its own value alone.
C6_TimersNeverBelowZero ==
    /\ [](chip8.timers.dt \in 0..255 /\ chip8.timers.st \in 0..255)
    /\ [][ Update(<<"TickTimers">>)
           => /\ chip8'.timers.dt = (IF chip8.timers.dt > 0 THEN chip8.timers.dt - 1 ELSE 0)
              /\ chip8'.timers.st = (IF chip8.timers.st > 0 THEN chip8.timers.st - 1 ELSE 0)
         ]_vars

\* after DT = 2 and ST = 3, a tick has found the delay timer 0 and the sound timer positive
C6_Witness ==
    /\ message = <<"TickTimers">>
    /\ chip8.registers.v[0] = 3
    /\ chip8.registers.v[1] = 2
    /\ chip8.timers.dt = 0
    /\ chip8.timers.st = 0
    /\ channel = <<ON, ON>>

\* C7 as claimed: the stack pointer is in 0..15 in every state; stated here of the
\* states of the running machine alone, which leaves aside the stack pointer a panic
\* leaves behind.
C7_StackPointerInRange == panic = None => chip8.registers.sp \in 0..15

\* C8 as claimed: every address asked of Memory is in 0..4095.
C8_MemoryAccessInBounds == \A addr \in accessed : addr \in 0..(MEMORY_SIZE - 1)


\* the recorded call is a draw_sprite
IsDraw(c) == c # None /\ c[1].method = "draw_sprite"

\* some cell that was unlit before is lit after
LitSome(before, after) ==
    \E row \in 0..(DISPLAY_HEIGHT - 1), col \in 0..(DISPLAY_WIDTH - 1) :
        ~before[row][col] /\ after[row][col]

\* C9: a second draw_sprite with the origin and sprite of the call before it leaves the grid
\* as it was before the first call, and returns a collision whenever the first call lit
\* a cell that was unlit.
C9_DrawTwiceRestores ==
    [][ ( /\ IsDraw(call) /\ IsDraw(call')
          /\ call'[1].x = call[1].x /\ call'[1].y = call[1].y /\ call'[1].sprite = call[1].sprite )
        => /\ chip8'.display.at = call[1].before
           /\ LitSome(call[1].before, chip8.display.at) => call'[1].collision
      ]_vars

\* the second of two equal draws has put out what the first lit and returned a collision
C9_Witness ==
    /\ IsDraw(call)
    /\ call[1].x = 255 /\ call[1].y = 255 /\ call[1].sprite = <<141, 141>>
    /\ call[1].collision
    /\ call[1].before[0][63] /\ call[1].before[31][63]
    /\ chip8.display.at = Display_new.at

\* bit n of a byte
Bit(byte, n) == (byte \div (2 ^ n)) % 2 = 1

\* the reference blit of sprite at (x, y): each target cell is old XOR incoming, every
\* other cell is as before
IsBlit(before, after, x, y, sprite) ==
    LET rows == { (y + r) % DISPLAY_HEIGHT : r \in 0..(Len(sprite) - 1) }
        cols == { (x + c) % DISPLAY_WIDTH : c \in 0..7 }
    IN  /\ \A r \in 0..(Len(sprite) - 1), c \in 0..7 :
              LET row == (y + r) % DISPLAY_HEIGHT
                  col == (x + c) % DISPLAY_WIDTH
              IN  after[row][col] = (before[row][col] # Bit(sprite[r + 1], 7 - c))
        /\ \A row \in 0..(DISPLAY_HEIGHT - 1) :
              IF row \in rows
              THEN \A col \in (0..(DISPLAY_WIDTH - 1)) \ cols : after[row][col] = before[row][col]
              ELSE after[row] = before[row]

\* the collision of the reference blit: some target cell was lit and its incoming bit is set
IsCollision(before, x, y, sprite) ==
    \E r \in 0..(Len(sprite) - 1), c \in 0..7 :
        /\ before[(y + r) % DISPLAY_HEIGHT][(x + c) % DISPLAY_WIDTH]
        /\ Bit(sprite[r + 1], 7 - c)

\* the word at pc is Dxyn and the clock executes it to its end
ExecutesDxyn ==
    /\ Update(<<"Clock">>)
    /\ chip8.waiting_key_for = None
    /\ in_bounds(chip8.registers.pc) /\ in_bounds(chip8.registers.pc + 1)
    /\ chip8.memory.at[chip8.registers.pc] \div 16 = 13
    /\ panic' = None

\* C10: draw_sprite is the reference blit (row (y + r) mod 32, column (x + c) mod 64, bit
\* 7 - c of the row byte, old XOR incoming, the other cells unchanged) and returns true
\* exactly when a lit target cell met a set bit; Dxyn draws the n bytes at I at (Vx, Vy)
\* so, and leaves that result in VF as 1 or 0.
C10_DrawSpriteIsReferenceBlit ==
    [][ /\ IsDraw(call')
              => /\ IsBlit(chip8.display.at, chip8'.display.at, call'[1].x, call'[1].y, call'[1].sprite)
                 /\ call'[1].collision = IsCollision(chip8.display.at, call'[1].x, call'[1].y, call'[1].sprite)
        /\ ExecutesDxyn
              => LET pc == chip8.registers.pc
                     x == chip8.registers.v[chip8.memory.at[pc] % 16]
                     y == chip8.registers.v[chip8.memory.at[pc + 1] \div 16]
                     n == chip8.memory.at[pc + 1] % 16
                     sprite == [j \in 1..n |-> chip8.memory.at[chip8.registers.i + j - 1]]
                 IN  /\ IsBlit(chip8.display.at, chip8'.display.at, x, y, sprite)
                     /\ chip8'.registers.v[15] =
                            (IF IsCollision(chip8.display.at, x, y, sprite) THEN 1 ELSE 0)
      ]_vars

\* Dxyn at (62, 31) has wrapped to row 0 and column 0 and met a lit cell
C10_Witness ==
    /\ message = <<"Clock">>
    /\ trace = Some([pc |-> 516, h |-> <<13, 0, 1, 2>>])
    /\ chip8.registers.v[15] = 1
    /\ chip8.display.at[31][0]
    /\ ~chip8.display.at[31][63]
    /\ chip8.display.at[0][1]

\* the recorded call is a clear
IsClear(c) == c # None /\ c[1].method = "clear"

\* the step is a clock event that fetches the word at pc
Fetches ==
    /\ Update(<<"Clock">>)
    /\ chip8.waiting_key_for = None
    /\ in_bounds(chip8.registers.pc) /\ in_bounds(chip8.registers.pc + 1)

\* the four nibbles of the word at pc
Fetched == NibblesAt(chip8.memory, chip8.registers.pc)

\* the clock fetches the word at pc, which is h, and update returns without a panic
Executes(h) == Fetches /\ Fetched = h /\ panic' = None

\* C11: clear() leaves the all-false 64x32 grid whatever the grid was, and a clear that
\* follows a clear changes nothing; 00E0 leaves the all-false grid, pc + 2, and every
\* other register, the stack, both timers, memory, the keys and the wait as they were.
C11_ClearYieldsEmptyGrid ==
    [][ /\ IsClear(call')
              => /\ chip8'.display.at = Display_new.at
                 /\ DOMAIN chip8'.display.at = 0..31
                 /\ \A y \in 0..31 : DOMAIN chip8'.display.at[y] = 0..63
                 /\ chip8' = [chip8 EXCEPT !.display.at = Display_new.at]
        /\ (IsClear(call) /\ IsClear(call'))
              => chip8' = chip8
        /\ Executes(<<0, 0, 14, 0>>)
              => /\ chip8'.display.at = Display_new.at
                 /\ chip8'.registers = [chip8.registers EXCEPT !.pc = chip8.registers.pc + 2]
                 /\ chip8'.timers = chip8.timers
                 /\ chip8'.memory = chip8.memory
                 /\ chip8'.keyboard = chip8.keyboard
                 /\ chip8'.waiting_key_for = chip8.waiting_key_for
      ]_vars

\* 00E0 has been executed with VA = DT = 31, and since then a clear() was called on a
\* grid with the bottom-right cell lit
C11_Witness ==
    /\ trace = Some([pc |-> 518, h |-> <<0, 0, 14, 0>>])
    /\ chip8.registers.pc = 520
    /\ chip8.registers.v[10] = 31
    /\ chip8.timers.dt = 31
    /\ IsClear(call)
    /\ call[1].before[31][63]
    /\ chip8.display.at = Display_new.at

\* the recorded call is a store, a load
IsStore(c) == c # None /\ c[1].method = "store"
IsLoad(c) == c # None /\ c[1].method = "load"

\* C12: store(a, v) leaves v at a and every other address as it was; a load(a) that
\* follows a store(a, v) returns v, whatever was stored at a before (the last write wins);
\* a load changes nothing, and two loads of a in a row return the same byte.
C12_MemoryRoundTrip ==
    [][ /\ IsStore(call')
              => /\ chip8'.memory.at[call'[1].addr] = call'[1].value
                 /\ chip8' = [chip8 EXCEPT !.memory.at[call'[1].addr] = call'[1].value]
                 /\ panic' = None
        /\ (IsStore(call) /\ IsLoad(call') /\ call'[1].addr = call[1].addr)
              => call'[1].result = call[1].value
        /\ IsLoad(call')
              => chip8' = chip8 /\ panic' = None
        /\ (IsLoad(call) /\ IsLoad(call') /\ call'[1].addr = call[1].addr)
              => call'[1].result = call[1].result
      ]_vars

\* 255 was stored at the last address over a 1 stored there before, and is loaded back,
\* after stores to other addresses
C12_Witness ==
    /\ IsLoad(call)
    /\ call[1].addr = 4095
    /\ call[1].result = 255
    /\ chip8.memory.at[512] = 1
    /\ chip8.memory.at[0] = 0
    /\ chip8.memory.at[79] = 128
    /\ chip8.memory.at[4094] = 0

\* the application has been constructed and nothing was delivered to it or called on it
Fresh == message = <<"None">> /\ call = None

\* the glyph of digit d is at d * 5 .. d * 5 + 4
GlyphAt(memory, d) == \A j \in 0..4 : memory.at[d * 5 + j] = FONT[d * 5 + j + 1]

\* C13: in the memory Memory::with_rom leaves, for a ROM that fits, the five bytes of the
\* glyph of each digit d in 0..15 are at d * 5 .. d * 5 + 4, so that the font is at
\* 0x000..0x04F; Fx29 with a digit d in Vx leaves I = d * 5 = font_addr(d), changes no
\* other register and advances pc by 2.
C13_FontTable ==
    /\ []( (Fresh /\ panic = None)
            => /\ \A d \in 0..15 : GlyphAt(chip8.memory, d)
               /\ \A a \in 0..79 : chip8.memory.at[a] = FONT[a + 1] )
    /\ [][ \A x \in 0..15 :
             (Executes(<<15, x, 2, 9>>) /\ chip8.registers.v[x] \in 0..15)
             => /\ chip8'.registers.i = chip8.registers.v[x] * 5
                /\ chip8'.registers = [chip8.registers EXCEPT !.i = chip8.registers.v[x] * 5,
                                                               !.pc = chip8.registers.pc + 2]
                /\ chip8'.memory = chip8.memory
          ]_vars

\* F029 has been executed with V0 = 15: I is 75, where the glyph of F is
C13_Witness ==
    /\ trace = Some([pc |-> 512, h |-> <<15, 0, 2, 9>>])
    /\ chip8.registers.v[0] = 15
    /\ chip8.registers.i = 75
    /\ chip8.registers.pc = 514
    /\ GlyphAt(chip8.memory, 15)
    /\ chip8.memory.at[79] = 128

\* the bytes a ROM may have: 0x200 .. 0xFFF
RomCapacity == MEMORY_SIZE - ROM_FROM

\* the memory the claim describes for a ROM that fits
IsLoaded(memory, bytes) ==
    \A a \in 0..(MEMORY_SIZE - 1) :
        memory.at[a] = (IF a >= ROM_FROM /\ a < ROM_FROM + Len(bytes) THEN bytes[a - ROM_FROM + 1]
                        ELSE IF a < 80 THEN FONT[a + 1]
                        ELSE 0)

\* C14 as claimed: a ROM of at most 0xE00 bytes is loaded at 0x200 over zeroes, with the font
\* at 0x000..0x04F; a longer ROM is refused at load time with an error of its own, which
\* is not the failed index check of the memory array.
C14_RomLoadingChecksCapacity ==
    Fresh => IF Len(flags.rom) <= RomCapacity
             THEN panic = None /\ IsLoaded(chip8.memory, flags.rom)
             ELSE panic # None /\ panic # INDEX_OUT_OF_BOUNDS

\* a ROM of 0xE01 bytes was given: with_rom has indexed the memory array at 4096
C14_Witness ==
    /\ Fresh
    /\ Len(flags.rom) = RomCapacity + 1
    /\ panic = INDEX_OUT_OF_BOUNDS

\* the step delivers a keyboard event
KeyboardEvent == \E k \in Keys : Update(<<"Press", k>>) \/ Update(<<"Release", k>>)

\* C15: no key is pressed in the keyboard Keyboard::new leaves; after a Press(k) the key k
\* is pressed and after a Release(k) it is not; Press(k) adds k to the pressed keys and
\* Release(k) takes k out, so that a Press of a pressed key and a Release of an unpressed
\* key change nothing and no other key changes; no other step changes the pressed keys.
C15_PressedKeySet ==
    /\ [](Fresh => \A value \in 0..255 : ~is_pressed(chip8.keyboard, value))
    /\ [](\A k \in Keys :
            /\ message = <<"Press", k>> => is_pressed(chip8.keyboard, k)
            /\ message = <<"Release", k>> => ~is_pressed(chip8.keyboard, k))
    /\ [][ /\ \A k \in Keys :
                 /\ Update(<<"Press", k>>)
                       => chip8'.keyboard.pressed_keys = chip8.keyboard.pressed_keys \cup {k}
                 /\ Update(<<"Release", k>>)
                       => chip8'.keyboard.pressed_keys = chip8.keyboard.pressed_keys \ {k}
           /\ ~KeyboardEvent => chip8'.keyboard = chip8.keyboard
         ]_vars

\* the key 7 resolved the wait and is still held down when the key 15 is pressed
C15_Witness ==
    /\ message = <<"Press", 15>>
    /\ chip8.registers.v[3] = 7
    /\ chip8.keyboard.pressed_keys = {7, 15}
    /\ is_pressed(chip8.keyboard, 7)

\* 1 for TRUE, 0 for FALSE
Flag(b) == IF b THEN 1 ELSE 0

\* the registers after an instruction that leaves result in Vx, then flag in VF, and pc + 2
ResultThenFlag(x, result, flag) ==
    chip8'.registers = [chip8.registers EXCEPT !.v = [[@ EXCEPT ![x] = result] EXCEPT ![15] = flag],
                                               !.pc = chip8.registers.pc + 2]

\* C16: with a = Vx and b = Vy read before the instruction, 8xy4 leaves VF = 1 iff
\* a + b >= 256, 8xy5 leaves VF = 1 iff a >= b, 8xy7 leaves VF = 1 iff b >= a, else 0; when
\* x is not F, Vx is left (a + b) mod 256, (a - b) mod 256, (b - a) mod 256; no other
\* register changes, pc advances by 2 and the instruction does not fail.
C16_AddSubFlags ==
    [][ (Fetches /\ Fetched[1] = 8 /\ Fetched[4] \in {4, 5, 7})
        => LET x == Fetched[2]
               y == Fetched[3]
               a == chip8.registers.v[x]
               b == chip8.registers.v[y]
               result == CASE Fetched[4] = 4 -> (a + b) % 256
                           [] Fetched[4] = 5 -> (a - b) % 256
                           [] Fetched[4] = 7 -> (b - a) % 256
               flag == CASE Fetched[4] = 4 -> Flag(a + b >= 256)
                         [] Fetched[4] = 5 -> Flag(a >= b)
                         [] Fetched[4] = 7 -> Flag(b >= a)
           IN  /\ panic' = None
               /\ chip8'.registers.v[15] = flag
               /\ x # 15 => chip8'.registers.v[x] = result
               /\ ResultThenFlag(x, result, flag)
               /\ chip8'.memory = chip8.memory /\ chip8'.timers = chip8.timers
      ]_vars

\* 8015 on V0 = 128 and V1 = 128: no borrow, V0 = 0 and VF = 1
C16_Witness ==
    /\ trace = Some([pc |-> 516, h |-> <<8, 0, 1, 5>>])
    /\ chip8.registers.v[0] = 0
    /\ chip8.registers.v[1] = 128
    /\ chip8.registers.v[15] = 1
    /\ chip8.registers.pc = 518
    /\ NibblesAt(chip8.memory, 512) = <<6, 0, 8, 0>>

\* C17 as claimed: with v = Vx read before the instruction, for every x in 0..15, 8xy6
\* leaves VF = the lowest bit of v and 8xyE leaves VF = the highest bit of v; when x is
\* not F, Vx is left v div 2 and (2 * v) mod 256; Vy is not changed.
C17_ShiftFlags ==
    [][ (Fetches /\ Fetched[1] = 8 /\ Fetched[4] \in {6, 14})
        => LET x == Fetched[2]
               y == Fetched[3]
               v == chip8.registers.v[x]
           IN  /\ panic' = None
               /\ chip8'.registers.v[15] = (IF Fetched[4] = 6 THEN v % 2 ELSE v \div 128)
               /\ x # 15 => chip8'.registers.v[x] = (IF Fetched[4] = 6 THEN v \div 2 ELSE (2 * v) % 256)
               /\ y \notin {x, 15} => chip8'.registers.v[y] = chip8.registers.v[y]
      ]_vars

\* 8F16 has been executed on VF = 2: VF is 1, the shifted value, and not the bit shifted out
C17_Witness ==
    /\ trace = Some([pc |-> 516, h |-> <<8, 15, 1, 6>>])
    /\ NibblesAt(chip8.memory, 512) = <<6, 15, 0, 2>>
    /\ chip8.registers.v[15] = 1
    /\ chip8.registers.v[1] = 255
    /\ panic = None

\* C18: 7xkk leaves (Vx + kk) mod 256 in Vx, whatever the sum, without a failure and
\* without a carry: every other V register, VF among them, I, sp and the stack are as
\* they were, and pc is advanced by 2; 6xkk leaves kk in Vx and pc advanced by 2.
C18_AddByteWraps ==
    [][ /\ (Fetches /\ Fetched[1] = 7)
              => LET x == Fetched[2]
                     kk == Fetched[3] * 16 + Fetched[4]
                 IN  /\ panic' = None
                     /\ chip8'.registers =
                           [chip8.registers EXCEPT !.v[x] = (chip8.registers.v[x] + kk) % 256,
                                                   !.pc = chip8.registers.pc + 2]
        /\ (Fetches /\ Fetched[1] = 6)
              => LET x == Fetched[2]
                     kk == Fetched[3] * 16 + Fetched[4]
                 IN  /\ panic' = None
                     /\ chip8'.registers =
                           [chip8.registers EXCEPT !.v[x] = kk, !.pc = chip8.registers.pc + 2]
      ]_vars

\* 7AFF on VA = 0x3C: VA is 0x3B, VF is still 1 and pc is past the instruction
C18_Witness ==
    /\ trace = Some([pc |-> 516, h |-> <<7, 10, 15, 15>>])
    /\ NibblesAt(chip8.memory, 514) = <<6, 10, 3, 12>>
    /\ chip8.registers.v[10] = 59
    /\ chip8.registers.v[15] = 1
    /\ chip8.registers.pc = 518
    /\ panic = None

\* the words that match no pattern of the instruction table
IsUnsupportedWord(h) ==
    \/ h[1] = 0 /\ h \notin { <<0, 0, 14, 0>>, <<0, 0, 14, 14>> }
    \/ h[1] \in {5, 9} /\ h[4] # 0
    \/ h[1] = 8 /\ h[4] \in (8..13) \cup {15}
    \/ h[1] = 14 /\ <<h[3], h[4]>> \notin { <<9, 14>>, <<10, 1>> }
    \/ h[1] = 15 /\ <<h[3], h[4]>> \notin { <<0, 7>>, <<0, 10>>, <<1, 5>>, <<1, 8>>, <<1, 14>>,
                                            <<2, 9>>, <<3, 3>>, <<5, 5>>, <<6, 5>> }

\* the panic is that of an unsupported instruction
IsUnsupportedPanic(p) == p # None /\ p[1] = "UNSUPPORTED INST"

\* C19: a fetched word that matches no pattern of the table aborts the machine with the
\* four nibbles of the word in the message and leaves pc, the registers, the stack, the
\* timers, memory, the framebuffer and the keys as they were; a word that matches a
\* pattern never ends so; once the machine has aborted no step is taken.
C19_UnsupportedInstructionAborts ==
    /\ [][ Fetches
           => IF IsUnsupportedWord(Fetched)
              THEN /\ panic' = <<"UNSUPPORTED INST", Fetched[1], Fetched[2], Fetched[3], Fetched[4]>>
                   /\ chip8' = chip8
                   /\ channel' = channel
              ELSE ~IsUnsupportedPanic(panic')
         ]_vars
    /\ [][ panic = None ]_vars

\* the word 801F was fetched at 0x200 and the machine has aborted with its nibbles
C19_Witness ==
    /\ panic = <<"UNSUPPORTED INST", 8, 0, 1, 15>>
    /\ trace = Some([pc |-> 512, h |-> <<8, 0, 1, 15>>])
    /\ chip8.registers.pc = 512
    /\ message = <<"Clock">>

\* the panics of an arithmetic overflow
OverflowPanics ==
    { <<"attempt to add with overflow">>,
      <<"attempt to subtract with overflow">>,
      <<"attempt to multiply with overflow">> }

\* C20 as claimed: no word that matches a pattern of the table ends in the panic of an
\* arithmetic overflow, whatever the state it is executed in.
C20_NoOverflowFailure ==
    [][ (Fetches /\ ~IsUnsupportedWord(Fetched)) => panic' \notin OverflowPanics ]_vars

\* F029 was executed on V0 = 52 in a build that checks overflow: 52 * 5 does not fit in u8
C20_Witness ==
    /\ trace = Some([pc |-> 514, h |-> <<15, 0, 2, 9>>])
    /\ chip8.registers.v[0] = 52
    /\ overflow_checks
    /\ panic = <<"attempt to multiply with overflow">>

\* the audio callback takes a volume from the channel
Samples == Len(channel') < Len(channel)

\* C21 as claimed: the channel is one slot that each command overwrites: when the audio
\* callback samples it, the volume it takes is the one commanded last, and nothing
\* commanded before that is left to be played.
C21_BackendObservesLatestOnly ==
    [][ Samples => (volume' = channel[Len(channel)] /\ channel' = <<>>) ]_vars

\* ST = 1 was set; the ticks have sent ON and then OFF before the audio callback ran;
\* the callback has taken the ON and plays it while the OFF waits in the channel
C21_Witness ==
    /\ chip8.registers.v[0] = 1
    /\ chip8.timers.st = 0
    /\ message = <<"TickTimers">>
    /\ volume = ON
    /\ channel = <<OFF>>

\* C22: 2nnn at address p with sp = s < 16 leaves p in stack[s], sp = s + 1 and pc = nnn;
\* 00EE with sp = s + 1 leaves sp = s and pc = stack[s] + 2; neither changes another
\* stack slot, a V register, I, memory, the framebuffer or the timers.  So a return
\* continues after the call it matches, with sp as it was before that call.
C22_CallReturnIsLifo ==
    [][ /\ (Fetches /\ Fetched[1] = 2 /\ chip8.registers.sp < 16)
              => LET s == chip8.registers.sp
                     p == chip8.registers.pc
                     nnn == Fetched[2] * 256 + Fetched[3] * 16 + Fetched[4]
                 IN  /\ panic' = None
                     /\ chip8' = [chip8 EXCEPT !.registers.stack[s] = p,
                                                !.registers.sp = s + 1,
                                                !.registers.pc = nnn]
        /\ (Fetches /\ Fetched = <<0, 0, 14, 14>> /\ chip8.registers.sp \in 1..16)
              => LET s == chip8.registers.sp - 1
                 IN  /\ panic' = None
                     /\ chip8' = [chip8 EXCEPT !.registers.sp = s,
                                                !.registers.pc = chip8.registers.stack[s] + 2]
      ]_vars

\* the inner return has continued at 0x208 and the outer return at 0x204, after the call
\* at 0x202: sp is 0 again, the stack still holds both return addresses, VA is as set
C22_Witness ==
    /\ trace = Some([pc |-> 520, h |-> <<0, 0, 14, 14>>])
    /\ chip8.registers.pc = 516
    /\ chip8.registers.sp = 0
    /\ chip8.registers.stack[0] = 514
    /\ chip8.registers.stack[1] = 518
    /\ chip8.registers.v[10] = 60
    /\ panic = None

\* C23: whatever events came before, Ex9E on Vx = k adds 4 to pc when k is among the
\* pressed keys as the key events delivered so far have left them, and 2 when it is not;
\* ExA1 adds 2 and 4; in particular a clock step that comes right after Press(k) sees k
\* pressed and one that comes right after Release(k) sees it released; a Vx over 15 is
\* never pressed and the instruction does not fail.  Nothing but pc is changed.
C23_KeyEventsVisibleToNextStep ==
    [][ (Fetches /\ Fetched[1] = 14 /\ <<Fetched[3], Fetched[4]>> \in { <<9, 14>>, <<10, 1>> })
        => LET k == chip8.registers.v[Fetched[2]]
               skp == <<Fetched[3], Fetched[4]>> = <<9, 14>>
               pressed == k \in chip8.keyboard.pressed_keys
           IN  /\ panic' = None
               /\ chip8' = [chip8 EXCEPT !.registers.pc = chip8.registers.pc + (IF skp = pressed THEN 4 ELSE 2)]
               /\ message = <<"Press", k>> => pressed
               /\ message = <<"Release", k>> => ~pressed
               /\ k > 15 => ~pressed
      ]_vars

\* the Press of 7 has resolved the wait of F00A, and E09E, executed right after it, has skipped
C23_Witness ==
    /\ trace = Some([pc |-> 514, h |-> <<14, 0, 9, 14>>])
    /\ message = <<"Clock">>
    /\ chip8.registers.v[0] = 7
    /\ chip8.registers.pc = 518
    /\ chip8.keyboard.pressed_keys = {7}
    /\ chip8.registers.v[1] = 0

---------------------------------------------------------------------------
(* Fx55 and Fx65: the transfer of V0..Vx to and from memory[I .. I + x].   *)

\* the block I .. I + x lies in memory
BlockInMemory(x) == chip8.registers.i + x < MEMORY_SIZE

\* the values V0..Vx may be overwritten with between the store and the load
Scrambles(x) ==
    { [r \in 0..15 |-> IF r <= x THEN fill ELSE chip8.registers.v[r]] : fill \in {0, 255} }
    \cup { [r \in 0..15 |-> IF r <= x THEN (chip8.registers.v[r] + r + 1) % U8_MOD ELSE chip8.registers.v[r]] }

\* C24: with the block I .. I + x in memory, Fx55 writes V0..Vx to memory[I .. I + x] and
\* changes no other byte and no register but pc, which it advances by 2; Fx65 loads V0..Vx
\* from memory[I .. I + x] and changes no register above Vx, no byte of memory and not I,
\* and advances pc by 2; and after Fx55, however V0..Vx are overwritten, Fx65 with the same
\* I and x brings V0..Vx back.
C24_BlockTransfer ==
    [][ \A x \in 0..15 :
          LET i == chip8.registers.i
              v == chip8.registers.v
              at == chip8.memory.at
          IN  /\ (Fetches /\ Fetched = <<15, x, 5, 5>> /\ BlockInMemory(x))
                 => /\ panic' = None
                    /\ chip8' = [chip8 EXCEPT
                                   !.memory.at = [a \in DOMAIN at |->
                                                    IF a >= i /\ a <= i + x THEN v[a - i] ELSE at[a]],
                                   !.registers.pc = chip8.registers.pc + 2]
                    /\ \A scr \in Scrambles(x) :
                          LET w == [World EXCEPT !.chip8 = [chip8' EXCEPT !.registers.v = scr],
                                                 !.panic = panic']
                              r == op_Fx65(w, x)
                          IN  /\ r.panic = None
                              /\ r.chip8.registers.v = v
                              /\ r.chip8.registers.i = i
                              /\ r.chip8.memory = chip8'.memory
              /\ (Fetches /\ Fetched = <<15, x, 6, 5>> /\ BlockInMemory(x))
                 => /\ panic' = None
                    /\ chip8' = [chip8 EXCEPT
                                   !.registers.v = [r \in DOMAIN v |->
                                                      IF r <= x THEN at[i + r] ELSE v[r]],
                                   !.registers.pc = chip8.registers.pc + 2]
      ]_vars

\* Fx65 has brought V0..V2 back from 0x300 after V0 and V1 were overwritten
C24_Witness ==
    /\ trace = Some([pc |-> 528, h |-> <<15, 2, 6, 5>>])
    /\ panic = None
    /\ chip8.registers.pc = 530
    /\ chip8.registers.i = 768
    /\ chip8.registers.v[0] = 17 /\ chip8.registers.v[1] = 34 /\ chip8.registers.v[2] = 51
    /\ chip8.registers.v[15] = 68
    /\ chip8.memory.at[768] = 17 /\ chip8.memory.at[769] = 34 /\ chip8.memory.at[770] = 51
    /\ chip8.memory.at[771] = 0

---------------------------------------------------------------------------
(* Cxkk: the random byte under a mask.                                     *)

\* the next clock step executes Cxkk
AboutToDraw ==
    /\ panic = None
    /\ chip8.waiting_key_for = None
    /\ in_bounds(chip8.registers.pc) /\ in_bounds(chip8.registers.pc + 1)
    /\ Fetched[1] = 12

\* C25 as claimed: where Cxkk is about to execute, every byte v with (v AND kk) = v is a
\* result the step can leave in Vx, with pc advanced by 2: for kk = 0xFF every value of
\* 0..255, 255 included.
C25_EveryMaskedByteIsPossible ==
    AboutToDraw
    => LET x == Fetched[2]
           kk == value_of(Fetched[3], Fetched[4])
       IN  \A d \in 0..(U8_MOD - 1) :
             LET v == (U8_MOD - 1) - d
             IN  bit_and(v, kk) = v
                 => ENABLED (/\ Clock
                             /\ chip8'.registers.v[x] = v
                             /\ chip8'.registers.pc = chip8.registers.pc + 2)

\* C0FF has drawn 254, the largest byte gen_range(0..0xFF) yields
C25_Witness ==
    /\ trace = Some([pc |-> 512, h |-> <<12, 0, 15, 15>>])
    /\ message = <<"Clock">>
    /\ chip8.registers.v[0] = 254
    /\ chip8.registers.pc = 514

---------------------------------------------------------------------------
(* The events that are not clock events: render, keys and timer ticks.     *)

\* C26: a render event changes nothing at all; a key event changes neither pc, I, sp, the
\* stack, the timers, memory nor the framebuffer, and sends nothing to the buzzer; it
\* writes a V register only when it is a Press delivered while a key is awaited, and then
\* the awaited register alone; delivered while the machine runs it changes the pressed
\* keys and nothing else.
C26_NonClockEventsFrame ==
    [][ /\ Update(<<"FromDisplay">>)
              => /\ chip8' = chip8
                 /\ UNCHANGED <<flags, channel, volume, panic, overflow_checks, trace>>
        /\ \A k \in Keys : \A kind \in {"Press", "Release"} :
              Update(<<kind, k>>)
              => LET wait == chip8.waiting_key_for
                     resolves == kind = "Press" /\ wait # None
                 IN  /\ chip8'.registers =
                           (IF resolves THEN [chip8.registers EXCEPT !.v[wait[1]] = k]
                            ELSE chip8.registers)
                     /\ chip8'.timers = chip8.timers
                     /\ chip8'.memory = chip8.memory
                     /\ chip8'.display = chip8.display
                     /\ UNCHANGED <<channel, volume, panic, trace>>
                     /\ wait = None => chip8' = [chip8 EXCEPT !.keyboard = chip8'.keyboard]
      ]_vars

\* with the timers counting and two rows drawn, a Press of 15 has resolved the wait of
\* F10A: V1 holds the key, V0 is as it was
C26_Witness ==
    /\ message = <<"Press", 15>>
    /\ chip8.waiting_key_for = None
    /\ chip8.registers.v[1] = 15
    /\ chip8.registers.v[0] = 2
    /\ chip8.registers.pc = 524
    /\ chip8.timers.dt = 1
    /\ chip8.timers.st = 2
    /\ chip8.display # Display_new

\* the world with the wait for a key switched: pending on V0 if none was, none if one was
OtherMode ==
    [World EXCEPT !.chip8.waiting_key_for = IF @ = None THEN Some(0) ELSE None]

\* C27: a timer tick takes 1 from each timer that is positive, sends ON if the sound timer
\* was positive and OFF if not, and changes nothing else: pc, V0..VF, I, sp, the stack,
\* memory, the framebuffer, the pressed keys and the awaited register stay; and it does
\* to the timers and the buzzer what it would do were the machine in the other mode,
\* awaiting a key instead of running or running instead of awaiting.
C27_TimerTicksIndependent ==
    [][ Update(<<"TickTimers">>)
        => LET other == update(OtherMode, <<"TickTimers">>, 0)
           IN  /\ chip8' = [chip8 EXCEPT
                              !.timers.dt = IF @ > 0 THEN @ - 1 ELSE 0,
                              !.timers.st = IF @ > 0 THEN @ - 1 ELSE 0]
               /\ Sent(IF chip8.timers.st > 0 THEN ON ELSE OFF)
               /\ UNCHANGED <<panic, trace, volume>>
               /\ other.chip8.timers = chip8'.timers
               /\ channel' = channel \o other.sent
               /\ other.chip8.waiting_key_for = OtherMode.chip8.waiting_key_for
      ]_vars

\* while the key of F10A is awaited, a tick has taken the timers from 1 and 2 to 0 and 1
\* and sent ON
C27_Witness ==
    /\ message = <<"TickTimers">>
    /\ chip8.waiting_key_for = Some(1)
    /\ chip8.registers.pc = 524
    /\ chip8.timers.dt = 0
    /\ chip8.timers.st = 1
    /\ channel = <<ON>>

====
